---- MODULE Spec2Model ----
(***************************************************************************)
(* Cohort early warning: the scoring and report engine (src/src/risk.rs,   *)
(* src/src/report.rs) and the two commands of src/src/main.rs that drive   *)
(* it (Score, Report).                                                     *)
(*                                                                         *)
(* Representation.                                                         *)
(*  - A calendar date (NaiveDate) is an integer day number; the UTC date   *)
(*    the process starts on is day 0.  Utc::now().date_naive() reads the   *)
(*    variable `now`, which the environment advances (Tick).               *)
(*  - An f64 weight or score is held exactly, in tenths: 0.7 is 7, a score *)
(*    of 4.4 is 44.  Severities are integers, so every score is a whole    *)
(*    number of tenths.                                                    *)
(*  - A scholar's name, e-mail and cohort come from one row of the         *)
(*    scholars table, so the e-mail (unique per scholar) stands for the    *)
(*    three of them.                                                       *)
(*  - A report is the sequence of its lines; a line is a tuple of the      *)
(*    literal text and the formatted values written into it.  Text fields  *)
(*    are atoms: notes and names hold no line break.                       *)
(*  - A HashMap is a function on its key set; its iteration order is any   *)
(*    order of the keys (RandomState seeds every map differently).         *)
(***************************************************************************)
EXTENDS Integers, Sequences, FiniteSets, TLC

\* ------------------------------------------------------------------ bounds
\* Longest signal list given to the engine.
MaxSignals == 2
\* Number of midnights (UTC) that may pass while the process runs.
MaxTicks == 1
\* Oldest signal, in days before day 0, of the recency-weight specification.
MaxDaysAgo == 62
\* Longest signal list, and the number of scholars, of the roster specification.
MaxRoster == 12

\* ------------------------------------------------------- program constants
\* report.rs: scores.iter().take(10)
TopScholars == 10
\* report.rs: recent_signals.iter().take(5)
RecentNotes == 5

VARIABLES
    now,          \* the current UTC date (Utc::now().date_naive())
    signals,      \* input: the fetched SignalRecord rows
    since_days,   \* input: --since-days
    cohort,       \* input: the scope label, an Option: <<>> or <<label>>
    trends,       \* input: the fetched SignalTrend rows
    command,      \* input: "score" or "report"
    limit,        \* input: --limit of the Score command
    pc,           \* position of the running command
    since_date,   \* main: risk::cutoff_date(since_days)
    cutoff,       \* score_signals: cutoff
    idx,          \* score_signals: position of the loop over signals
    scores,       \* score_signals: the HashMap scholar_id -> ScholarScore
    weighed,      \* score_signals: per retained signal, the date read and the weight used
    values,       \* score_signals: the returned Vec<ScholarScore>
    summaries,    \* summarize_by_type: the returned Vec<SignalTypeSummary>
    output,       \* build_report: the returned text / main Score: the printed lines
    reads,        \* the dates Utc::now() returned to the running command, in order
    prev          \* what the previous run on the same inputs returned

vars == <<now, signals, since_days, cohort, trends, command, limit, pc, since_date,
          cutoff, idx, scores, weighed, values, summaries, output, reads, prev>>

inputs == <<signals, since_days, cohort, trends, command, limit>>

locals == <<since_date, cutoff, idx, scores, weighed, values, summaries, output, reads>>

\* ------------------------------------------------------------------ helpers
Max(a, b) == IF a >= b THEN a ELSE b

Min(a, b) == IF a <= b THEN a ELSE b

Range(seq) == {seq[i] : i \in DOMAIN seq}

\* Variant of Take: one element more than asked for.
Take_one_more(seq, n) == SubSeq(seq, 1, Min(n + 1, Len(seq)))

Take(seq, n) == SubSeq(seq, 1, Min(n, Len(seq)))

\* All sequences over S of length at most n.
SeqsUpTo(S, n) == UNION {[1..k -> S] : k \in 0..n}

\* Every order in which the elements of a finite set can be iterated.
Orders(S) ==
    {f \in [1..Cardinality(S) -> S] : \A i, j \in 1..Cardinality(S) : f[i] = f[j] => i = j}

RECURSIVE SumOver(_, _)
\* Sum of f[x] over x in S (f a function on a superset of S).
SumOver(S, f) ==
    IF S = {} THEN 0
    ELSE LET x == CHOOSE y \in S : TRUE IN f[x] + SumOver(S \ {x}, f)

\* --------------------------------------------------------------- risk.rs
\* Variant of recency_weight: the first range written 0..=8.
recency_weight_first_tier_8(days_ago) ==
    IF days_ago >= 0 /\ days_ago <= 8 THEN 10
    ELSE IF days_ago >= 9 /\ days_ago <= 30 THEN 7
    ELSE IF days_ago >= 31 /\ days_ago <= 60 THEN 4
    ELSE 2

\* recency_weight, in tenths.  The arms are tried in order; a negative
\* days_ago matches none of the three ranges and falls to the wildcard.
recency_weight(days_ago) ==
    IF days_ago >= 0 /\ days_ago <= 7 THEN 10
    ELSE IF days_ago >= 8 /\ days_ago <= 30 THEN 7
    ELSE IF days_ago >= 31 /\ days_ago <= 60 THEN 4
    ELSE 2

\* cutoff_date(since_days), `today` being the date its Utc::now() reads.
cutoff_date(today, days) == today - Max(days, 1)

\* Variant of score_cutoff: since_days used without .max(1).
score_cutoff_unclamped(today, days) == today - days

\* score_signals, line 6: the cutoff, computed from its own clock read.
score_cutoff(today, days) == today - Max(days, 1)

\* Variant of skipped: the comparison written <=.
skipped_on_cutoff(signal, cut) == signal.occurred_at <= cut

\* score_signals, line 11: a signal before the cutoff is skipped.
skipped(signal, cut) == signal.occurred_at < cut

\* Variant of days_ago_of: the subtraction reversed.
days_ago_reversed(today, signal) == signal.occurred_at - today

\* score_signals, line 15: days_ago, from the clock read of this iteration.
days_ago_of(today, signal) == today - signal.occurred_at

\* Variant of accumulate: insert(..) in place of entry(..).or_insert_with(..),
\* so every signal starts its scholar's entry afresh.
accumulate_insert(map, signal, weight) ==
    LET id == signal.scholar_id
        updated == [scholar_email |-> signal.scholar_email,
                    score |-> signal.severity * weight, signal_count |-> 1]
    IN [k \in DOMAIN map \cup {id} |-> IF k = id THEN updated ELSE map[k]]

\* score_signals, lines 17-26: entry(..).or_insert_with(..), then the two updates.
accumulate(map, signal, weight) ==
    LET id == signal.scholar_id
        entry == IF id \in DOMAIN map
                 THEN map[id]
                 ELSE [scholar_email |-> signal.scholar_email, score |-> 0, signal_count |-> 0]
        updated == [entry EXCEPT !.score = @ + signal.severity * weight,
                                 !.signal_count = @ + 1]
    IN [k \in DOMAIN map \cup {id} |-> IF k = id THEN updated ELSE map[k]]

\* Variant of sort_by_score: a.score.partial_cmp(&b.score), ascending.
sort_by_score_ascending(seq) ==
    LET before(i, j) == seq[i].score < seq[j].score
                        \/ (seq[i].score = seq[j].score /\ i < j)
        place(i) == 1 + Cardinality({j \in DOMAIN seq : before(j, i)})
    IN [p \in DOMAIN seq |-> seq[CHOOSE i \in DOMAIN seq : place(i) = p]]

\* score_signals, line 30: sort_by is stable; b.score.partial_cmp(&a.score)
\* orders by score descending (scores are finite, so never incomparable).
sort_by_score(seq) ==
    LET before(i, j) == seq[i].score > seq[j].score
                        \/ (seq[i].score = seq[j].score /\ i < j)
        place(i) == 1 + Cardinality({j \in DOMAIN seq : before(j, i)})
    IN [p \in DOMAIN seq |-> seq[CHOOSE i \in DOMAIN seq : place(i) = p]]

\* score_signals, line 29: scores.into_values().collect(), the map iterated
\* in the key order `order`.
into_values(map, order) == [i \in DOMAIN order |-> map[order[i]]]

RECURSIVE iteration_orders(_, _)
\* score_signals, line 29: the orders in which into_values() can yield the
\* entries with keys S.  The map may yield them in any order, and the stable
\* sort of line 30 keeps of that order only the relative order of entries
\* with equal scores; so one order, lowest score first, stands for all the
\* orders that arrange the equal scores alike.
iteration_orders(map, S) ==
    IF S = {} THEN {<<>>}
    ELSE LET lowest == {k \in S : \A j \in S : map[k].score <= map[j].score}
         IN UNION {{<<k>> \o rest : rest \in iteration_orders(map, S \ {k})} : k \in lowest}

\* ------------------------------------------------------------- report.rs
\* summarize_by_type, lines 13-15: one iteration of the grouping loop.
tally(map, signal) ==
    LET t == signal.signal_type
        entry == IF t \in DOMAIN map THEN map[t] ELSE [count |-> 0, total |-> 0]
        updated == [count |-> entry.count + 1, total |-> entry.total + signal.severity]
    IN [k \in DOMAIN map \cup {t} |-> IF k = t THEN updated ELSE map[k]]

RECURSIVE group_by_type(_, _)
\* summarize_by_type, lines 9-16: the map after the first k signals.
group_by_type(sigs, k) ==
    IF k = 0 THEN [t \in {} |-> [count |-> 0, total |-> 0]]
    ELSE tally(group_by_type(sigs, k - 1), sigs[k])

\* Variant of to_summary: the division done on the integers, before the cast.
to_summary_integer_division(t, entry) ==
    [signal_type |-> t,
     count |-> entry.count,
     avg_severity |-> IF entry.count = 0
                      THEN [num |-> 0, den |-> 1]
                      ELSE [num |-> entry.total \div entry.count, den |-> 1]]

\* summarize_by_type, lines 20-28: one map entry as a SignalTypeSummary.  The
\* f64 total/count is held as the exact quotient num/den (0/1 for the
\* count == 0 arm).
to_summary(t, entry) ==
    [signal_type |-> t,
     count |-> entry.count,
     avg_severity |-> IF entry.count = 0
                      THEN [num |-> 0, den |-> 1]
                      ELSE [num |-> entry.total, den |-> entry.count]]

\* summarize_by_type, line 31: stable sort by count descending.
sort_by_count(seq) ==
    LET before(i, j) == seq[i].count > seq[j].count
                        \/ (seq[i].count = seq[j].count /\ i < j)
        place(i) == 1 + Cardinality({j \in DOMAIN seq : before(j, i)})
    IN [p \in DOMAIN seq |-> seq[CHOOSE i \in DOMAIN seq : place(i) = p]]

\* summarize_by_type, the map iterated in the key order `order`.
summarize_by_type(sigs, order) ==
    LET map == group_by_type(sigs, Len(sigs))
    IN sort_by_count([i \in DOMAIN order |-> to_summary(order[i], map[order[i]])])

\* build_report, lines 88-89: stable sort of a copy by occurred_at descending.
sort_by_recent(seq) ==
    LET before(i, j) == seq[i].occurred_at > seq[j].occurred_at
                        \/ (seq[i].occurred_at = seq[j].occurred_at /\ i < j)
        place(i) == 1 + Cardinality({j \in DOMAIN seq : before(j, i)})
    IN [p \in DOMAIN seq |-> seq[CHOOSE i \in DOMAIN seq : place(i) = p]]

\* "{:.1}" of the quotient num/den: the number of tenths printed, rounded to
\* nearest, a tie to the even digit.
fmt_1(avg) ==
    LET n == 10 * avg.num
        q == n \div avg.den
        r == n % avg.den
    IN IF 2 * r > avg.den THEN q + 1
       ELSE IF 2 * r < avg.den THEN q
       ELSE IF q % 2 = 0 THEN q ELSE q + 1

\* "{:.2}" of a value held in tenths: the number of hundredths printed.
fmt_2(tenths) == 10 * tenths

\* build_report, line 46: cohort.unwrap_or("all cohorts"); an Option is a
\* sequence of length 0 or 1.
cohort_label(opt) == IF opt = <<>> THEN "all cohorts" ELSE opt[1]

\* build_report, lines 48-54: title, metadata, blank line.
header_lines(opt, cut) ==
    << <<"# Cohort Early Warning Report">>,
       <<"Generated for {} (signals since {})", cohort_label(opt), cut>>,
       <<"">> >>

\* build_report, lines 55-67: the Signal Mix section.
mix_lines(sums) ==
    << <<"## Signal Mix">> >> \o
    (IF sums = <<>>
     THEN << <<"No signals recorded for this window.">> >>
     ELSE [i \in DOMAIN sums |->
              <<"- {}: {} signals (avg severity {:.1})",
                sums[i].signal_type, sums[i].count, fmt_1(sums[i].avg_severity)>>])

\* main, lines 113-120 and build_report, lines 76-84: one scholar's line.
score_line(s) ==
    <<"- {} ({}, {}) score {:.2} across {} signals",
      s.scholar_email, fmt_2(s.score), s.signal_count>>

\* Variant of risk_lines: the section is written only when there are scores.
risk_lines_skipped_when_empty(vals) ==
    IF vals = <<>>
    THEN <<>>
    ELSE << <<"">>, <<"## Highest Risk Scholars">> >> \o
         [i \in DOMAIN Take(vals, TopScholars) |-> score_line(vals[i])]

\* build_report, lines 69-86: blank line and the Highest Risk Scholars section.
risk_lines(vals) ==
    << <<"">>, <<"## Highest Risk Scholars">> >> \o
    (IF vals = <<>>
     THEN << <<"No scholars with signals in this window.">> >>
     ELSE [i \in DOMAIN Take(vals, TopScholars) |-> score_line(vals[i])])

\* build_report, lines 88-103: blank line and the Recent Signal Notes section.
notes_lines(sigs) ==
    LET recent_signals == sort_by_recent(sigs)
    IN << <<"">>, <<"## Recent Signal Notes">> >> \o
       (IF recent_signals = <<>>
        THEN << <<"No signals recorded for this window.">> >>
        ELSE [i \in DOMAIN Take(recent_signals, RecentNotes) |->
                 <<"- {} ({}) on {}: {}",
                   recent_signals[i].scholar_email, recent_signals[i].signal_type,
                   recent_signals[i].occurred_at, recent_signals[i].note>>])

\* build_report, lines 105-118: blank line and the Weekly Signal Trend section.
trend_lines(rows) ==
    << <<"">>, <<"## Weekly Signal Trend">> >> \o
    (IF rows = <<>>
     THEN << <<"No weekly trend data available for this window.">> >>
     ELSE [i \in DOMAIN rows |->
              <<"- Week of {}: {} signals across {} scholars (avg severity {:.2})",
                rows[i].week_start, rows[i].signal_count, rows[i].scholar_count,
                fmt_2(rows[i].avg_severity)>>])

\* build_report, lines 45-120, after the scores and summaries are computed.
build_report(opt, cut, sigs, rows, vals, sums) ==
    header_lines(opt, cut) \o mix_lines(sums) \o risk_lines(vals)
        \o notes_lines(sigs) \o trend_lines(rows)

\* main, lines 106-121: what the Score command prints.
print_scores(vals, n) ==
    IF vals = <<>>
    THEN << <<"No signals found for this window.">> >>
    ELSE << <<"Top scholars by risk score:">> >> \o
         [i \in DOMAIN Take(vals, n) |-> score_line(vals[i])]

\* ------------------------------------------------------------------ inputs
\* scholars table: id -> e-mail.
scholar_emails ==
    [id \in 1..MaxRoster |->
        IF id = 1 THEN "avery@example.com"
        ELSE IF id = 2 THEN "blake@example.com"
        ELSE "scholar" \o ToString(id) \o "@example.com"]

\* One SignalRecord, as db::fetch_signals builds it from a joined row.
SignalRecord(id, type, severity, occurred_at) ==
    [scholar_id |-> id, scholar_email |-> scholar_emails[id], signal_type |-> type,
     severity |-> severity, occurred_at |-> occurred_at, note |-> "missed session"]

\* One SignalTrend row, as db::fetch_weekly_trends returns it (avg_severity in tenths).
SignalTrend(week_start, signal_count, avg_severity, scholar_count) ==
    [week_start |-> week_start, signal_count |-> signal_count,
     avg_severity |-> avg_severity, scholar_count |-> scholar_count]

\* Signals of the general specification, as <<scholar, type>> and <<severity,
\* days before day 0>>.  Scholars and types are interchangeable, so up to
\* three signals these three <<scholar, type>> pairs give every pattern of
\* equal and different scholars and types.
SignalPool ==
    {SignalRecord(it[1], it[2], ds[1], 0 - ds[2]) :
        it \in {<<1, "attendance">>, <<2, "attendance">>, <<2, "engagement">>},
        ds \in {<<3, 0>>, <<2, 12>>, <<2, 30>>}}

SinceChoices == {0 - 5, 0, 30}

\* How a command is invoked: command, --limit, scope label, fetched trend rows.
Invocations ==
    {[command |-> "score", limit |-> 1, cohort |-> <<>>, trends |-> <<>>],
     [command |-> "report", limit |-> 10, cohort |-> <<>>, trends |-> <<>>],
     [command |-> "report", limit |-> 10, cohort |-> <<"2026">>,
      trends |-> <<SignalTrend(0 - 6, 2, 25, 1)>>]}

\* ----------------------------------------------------------------- actions
\* The state after process start: inputs chosen, nothing computed.
InitWith(sigs, since, invocations) ==
    /\ now = 0
    /\ signals \in sigs
    /\ since_days \in since
    /\ \E inv \in invocations :
          /\ command = inv.command
          /\ limit = inv.limit
          /\ cohort = inv.cohort
          /\ trends = inv.trends
    /\ pc = "main"
    /\ since_date = 0
    /\ cutoff = 0
    /\ idx = 0
    /\ scores = <<>>
    /\ weighed = <<>>
    /\ values = <<>>
    /\ summaries = <<>>
    /\ output = <<>>
    /\ reads = <<>>
    /\ prev = <<>>

Init == InitWith(SeqsUpTo(SignalPool, MaxSignals), SinceChoices, Invocations)

\* The UTC date advances (midnight passes) while a command runs.  The
\* repeated run is taken on one date: it is there to be compared with the
\* first run under the same current date.
Tick ==
    /\ pc # "done"
    /\ prev = <<>>
    /\ now < MaxTicks
    /\ now' = now + 1
    /\ UNCHANGED <<inputs, pc, locals, prev>>

\* main, lines 96 / 129: let since_date = risk::cutoff_date(since_days); the
\* fetches that follow return the rows held in `signals` and `trends`.
MainCutoff ==
    /\ pc = "main"
    /\ since_date' = cutoff_date(now, since_days)
    /\ reads' = <<now>>
    /\ pc' = "score_signals"
    /\ UNCHANGED <<now, inputs, cutoff, idx, scores, weighed, values, summaries, output, prev>>

\* score_signals, lines 6-8.
ScoreBegin ==
    /\ pc = "score_signals"
    /\ cutoff' = score_cutoff(now, since_days)
    /\ scores' = <<>>
    /\ idx' = 1
    /\ reads' = Append(reads, now)
    /\ pc' = "score_loop"
    /\ UNCHANGED <<now, inputs, since_date, weighed, values, summaries, output, prev>>

\* score_signals, lines 10-27: one iteration of the loop.
ScoreStep ==
    /\ pc = "score_loop"
    /\ idx <= Len(signals)
    /\ LET signal == signals[idx] IN
        IF skipped(signal, cutoff)
        THEN UNCHANGED <<scores, weighed, reads>>
        ELSE LET days_ago == days_ago_of(now, signal)
                 weight == recency_weight(days_ago)
             IN /\ scores' = accumulate(scores, signal, weight)
                /\ weighed' = Append(weighed, [index |-> idx, today |-> now,
                                               days_ago |-> days_ago, weight |-> weight])
                /\ reads' = Append(reads, now)
    /\ idx' = idx + 1
    /\ UNCHANGED <<now, inputs, pc, since_date, cutoff, values, summaries, output, prev>>

\* score_signals, lines 29-31: collect the map's values in its iteration
\* order, sort, return.
ScoreSort ==
    /\ pc = "score_loop"
    /\ idx > Len(signals)
    /\ \E order \in iteration_orders(scores, DOMAIN scores) :
          values' = sort_by_score(into_values(scores, order))
    /\ pc' = IF command = "score" THEN "print" ELSE "summarize"
    /\ UNCHANGED <<now, inputs, since_date, cutoff, idx, scores, weighed, summaries, output,
                   reads, prev>>

\* main, lines 106-121: the Score command prints and ends.
PrintScores ==
    /\ pc = "print"
    /\ output' = print_scores(values, limit)
    /\ pc' = "done"
    /\ UNCHANGED <<now, inputs, since_date, cutoff, idx, scores, weighed, values, summaries,
                   reads, prev>>

\* build_report, line 43: let summaries = summarize_by_type(signals).
Summarize ==
    /\ pc = "summarize"
    /\ \E order \in Orders({signals[i].signal_type : i \in DOMAIN signals}) :
          summaries' = summarize_by_type(signals, order)
    /\ pc' = "render"
    /\ UNCHANGED <<now, inputs, since_date, cutoff, idx, scores, weighed, values, output,
                   reads, prev>>

\* build_report, lines 45-120, and main, line 151: the report is composed and written.
Render ==
    /\ pc = "render"
    /\ output' = build_report(cohort, since_date, signals, trends, values, summaries)
    /\ pc' = "done"
    /\ UNCHANGED <<now, inputs, since_date, cutoff, idx, scores, weighed, values, summaries,
                   reads, prev>>

\* The same command is run again on the same inputs and the same date; what
\* the finished run returned is kept for comparison.
Rerun ==
    /\ pc = "done"
    /\ prev = <<>>
    /\ now = reads[1]
    /\ prev' = <<[output |-> output, values |-> values, run_date |-> reads[1]]>>
    /\ pc' = "main"
    /\ since_date' = 0
    /\ cutoff' = 0
    /\ idx' = 0
    /\ scores' = <<>>
    /\ weighed' = <<>>
    /\ values' = <<>>
    /\ summaries' = <<>>
    /\ output' = <<>>
    /\ reads' = <<>>
    /\ UNCHANGED <<now, inputs>>

Next ==
    \/ Tick
    \/ MainCutoff
    \/ ScoreBegin
    \/ ScoreStep
    \/ ScoreSort
    \/ PrintScores
    \/ Summarize
    \/ Render
    \/ Rerun

Spec == Init /\ [][Next]_vars

\* Recency-weight specification: one signal per run, dated from two days
\* after day 0 back to MaxDaysAgo days before it, in a window that keeps them all.
WeightSignals ==
    {<<SignalRecord(1, "attendance", 3, 0 - ago)>> : ago \in (0 - 2)..MaxDaysAgo}

InitWeights == InitWith(WeightSignals, {90}, Invocations)

SpecWeights == InitWeights /\ [][Next]_vars

\* Roster specification: lists of up to MaxRoster signals, longer than the
\* report's two truncations.  Signal i belongs to scholar 1 + (i - 1) % q, so
\* the list names MaxRoster scholars (q = MaxRoster) or three (q = 3);
\* severities run 6, 4, 2, 7, 5, 3, 1, 6, ... and dates 3, 6, 1, 4, 7, 2, 5, 0,
\* 3, ... days before day 0, so neither ranking is the input order and both
\* have ties.
RosterSignals ==
    {[i \in 1..m |->
        SignalRecord(1 + ((i - 1) % q),
                     IF i % 2 = 0 THEN "attendance" ELSE "engagement",
                     1 + ((5 * i) % 7),
                     0 - ((3 * i) % 8))] :
        m \in 0..MaxRoster, q \in {3, MaxRoster}}

InitRoster == InitWith(RosterSignals, {30}, Invocations)

SpecRoster == InitRoster /\ [][Next]_vars

\* ------------------------------------------------------------------ claims
\* Positions of the running command at which score_signals has returned.
Scored == pc \in {"print", "summarize", "render", "done"}

\* C1: every weight score_signals obtained from recency_weight for a
\* non-negative days_ago follows the tiers: 0..7 gives 1.0, 8..30 gives 0.7,
\* 31..60 gives 0.4 and 61 or more gives 0.2 (weights in tenths).
C1_WeightTiers ==
    \A k \in DOMAIN weighed :
        LET d == weighed[k].days_ago
            w == weighed[k].weight
        IN /\ (0 <= d /\ d <= 7) => w = 10
           /\ (8 <= d /\ d <= 30) => w = 7
           /\ (31 <= d /\ d <= 60) => w = 4
           /\ d >= 61 => w = 2

\* A signal 8 days old has been weighed 0.7, just past the 7/8 boundary.
C1_Witness ==
    \E k \in DOMAIN weighed : weighed[k].days_ago = 8 /\ weighed[k].weight = 7

\* C2 as claimed: a signal dated after today (negative days_ago) is weighed
\* 1.0, so it adds its full severity to the score.
C2_FutureTopTier ==
    \A k \in DOMAIN weighed :
        weighed[k].days_ago < 0 =>
            /\ weighed[k].weight = 10
            /\ Scored => \E v \in Range(values) :
                            v.score >= 10 * signals[weighed[k].index].severity

\* The window in days that the claims name: max(since_days, 1).
Window == IF since_days > 1 THEN since_days ELSE 1

\* Positions of the input signals dated on or after date d.
OnOrAfter(d) == {i \in DOMAIN signals : signals[i].occurred_at >= d}

\* Positions of the signals score_signals has counted so far.
Counted == {weighed[k].index : k \in DOMAIN weighed}

\* C3: with `today` the date score_signals read for its cutoff (reads[2]),
\* the signals it has counted are exactly those it has visited that are dated
\* on or after today - max(since_days, 1), for every since_days, zero and
\* negative included; its cutoff is that date, and cutoff_date returns
\* today - max(since_days, 1) for the date it read itself (reads[1]), the same
\* date when both read the same today.
C3_CutoffWindow ==
    Len(reads) >= 2 =>
        LET today == reads[2] IN
        /\ cutoff = today - Window
        /\ Counted = {i \in OnOrAfter(today - Window) : i < idx}
        /\ since_date = reads[1] - Window
        /\ reads[1] = today => since_date = cutoff

\* A run with since_days <= 0 has finished; one signal dated exactly on the
\* cutoff was counted and one dated before it was not.
C3_Witness ==
    /\ pc = "done"
    /\ since_days <= 0
    /\ \E i \in Counted : signals[i].occurred_at = cutoff
    /\ \E j \in DOMAIN signals \ Counted : signals[j].occurred_at < cutoff

\* C4: once score_signals has returned, the signal_count fields of its
\* result add up to the number of input signals dated on or after the cutoff.
C4_CountsAddUp ==
    Scored =>
        SumOver(DOMAIN values, [k \in DOMAIN values |-> values[k].signal_count])
            = Cardinality(OnOrAfter(cutoff))

\* Two signals of one scholar, both inside the window, are returned as one
\* entry with signal_count 2.
C4_Witness ==
    /\ Scored
    /\ Len(signals) = 2
    /\ signals[1].scholar_id = signals[2].scholar_id
    /\ OnOrAfter(cutoff) = {1, 2}
    /\ Len(values) = 1
    /\ values[1].signal_count = 2

\* C5: once score_signals has returned, its result holds exactly one entry
\* for each scholar_id with a signal on or after the cutoff and none for any
\* other scholar; with no such signal the result is empty.
C5_OnePerScholar ==
    Scored =>
        LET kept == {signals[i].scholar_id : i \in OnOrAfter(cutoff)} IN
        /\ Len(values) = Cardinality(kept)
        /\ {values[k].scholar_email : k \in DOMAIN values} = {scholar_emails[id] : id \in kept}
        /\ (signals = <<>> \/ OnOrAfter(cutoff) = {}) => values = <<>>

\* Two scholars were given, one with a signal inside the window and one
\* whose only signal is older than the cutoff: one entry is returned.
C5_Witness ==
    /\ Scored
    /\ Len(signals) = 2
    /\ signals[1].scholar_id # signals[2].scholar_id
    /\ Cardinality(OnOrAfter(cutoff)) = 1
    /\ Len(values) = 1

\* The score the claims give scholar `email`: the sum, over the counted
\* signals of that scholar, of severity * recency_weight(today - occurred_at),
\* today(k) being the current date when the k-th counted signal was weighed.
ExpectedScore(email, today(_)) ==
    LET mine == {k \in DOMAIN weighed : signals[weighed[k].index].scholar_email = email}
    IN SumOver(mine, [k \in mine |->
           signals[weighed[k].index].severity
               * recency_weight(today(k) - signals[weighed[k].index].occurred_at)])

\* C6: once score_signals has returned, every entry's score is the sum over
\* its scholar's counted signals of severity * recency_weight(today -
\* occurred_at), today being the current date when the signal was weighed,
\* which is the one date of the run when the date did not change during it;
\* signal_count is the number of those signals; and the score is
\* non-negative when no severity is negative.
C6_ScoreIsWeightedSum ==
    Scored =>
        \A n \in DOMAIN values :
            LET v == values[n]
                read(k) == weighed[k].today
                fixed(k) == reads[1]
                mine == {i \in OnOrAfter(cutoff) : signals[i].scholar_email = v.scholar_email}
            IN /\ v.score = ExpectedScore(v.scholar_email, read)
               /\ reads[Len(reads)] = reads[1] => v.score = ExpectedScore(v.scholar_email, fixed)
               /\ v.signal_count = Cardinality(mine)
               /\ (\A i \in DOMAIN signals : signals[i].severity >= 0) => v.score >= 0

\* The scenario of the claim: severities 3 and 2 of one scholar, weighed 1.0
\* and 0.7 (0 and 12 days old) with since_days = 30, give score 4.4 and
\* signal_count 2.
C6_Witness ==
    /\ Scored
    /\ since_days = 30
    /\ Len(weighed) = 2
    /\ signals[1].severity = 3 /\ weighed[1].days_ago = 0 /\ weighed[1].weight = 10
    /\ signals[2].severity = 2 /\ weighed[2].days_ago = 12 /\ weighed[2].weight = 7
    /\ Len(values) = 1
    /\ values[1].score = 44
    /\ values[1].signal_count = 2

\* C7: the list score_signals returns is in descending score order, so for
\* every N its first N entries score at least as high as every later entry;
\* the Score command prints the first min(limit, n) of the n entries.
C7_SortedDescending ==
    Scored =>
        /\ \A n \in 1..(Len(values) - 1) : values[n].score >= values[n + 1].score
        /\ \A n \in 0..Len(values) :
              \A a \in 1..n : \A b \in (n + 1)..Len(values) :
                  values[a].score >= values[b].score
        /\ (pc = "done" /\ command = "score" /\ values # <<>>) =>
              /\ Len(output) = 1 + Min(limit, Len(values))
              /\ \A n \in 1..Min(limit, Len(values)) : output[n + 1] = score_line(values[n])

\* The Score command with --limit 1 has printed one of two scholars, the one
\* with the strictly higher score, although that scholar's signal came second.
C7_Witness ==
    /\ pc = "done"
    /\ command = "score"
    /\ limit = 1
    /\ Len(values) = 2
    /\ values[1].score > values[2].score
    /\ signals[2].scholar_email = values[1].scholar_email
    /\ Len(output) = 2

\* Positions of the Report command at which summarize_by_type has returned.
Summarized == command = "report" /\ pc \in {"render", "done"}

\* The signal types present in the input.
TypesGiven == {signals[i].signal_type : i \in DOMAIN signals}

\* Positions of the input signals of type t.
OfType(t) == {i \in DOMAIN signals : signals[i].signal_type = t}

\* C8: summarize_by_type returns one row per signal type of the input and no
\* label twice; a row's count is the positive number of input signals of its
\* type, the counts add up to the input length, and a row's avg_severity is
\* the sum of its group's severities divided by its count.
C8_SummaryPerType ==
    Summarized =>
        /\ Len(summaries) = Cardinality(TypesGiven)
        /\ {summaries[k].signal_type : k \in DOMAIN summaries} = TypesGiven
        /\ SumOver(DOMAIN summaries, [k \in DOMAIN summaries |-> summaries[k].count])
               = Len(signals)
        /\ \A k \in DOMAIN summaries :
              LET s == summaries[k]
                  group == OfType(s.signal_type)
                  total == SumOver(group, [i \in group |-> signals[i].severity])
              IN /\ s.count = Cardinality(group)
                 /\ s.count > 0
                 /\ s.avg_severity.num * s.count = total * s.avg_severity.den

\* Two signals of one type with severities 3 and 2 are summarized as one row
\* with count 2 and average 2.5.
C8_Witness ==
    /\ Summarized
    /\ Len(signals) = 2
    /\ Len(summaries) = 1
    /\ summaries[1].count = 2
    /\ 2 * summaries[1].avg_severity.num = 5 * summaries[1].avg_severity.den

\* The four section headers, in the order build_report writes them, and the
\* no-data line of each section.
SectionHeaders ==
    <<"## Signal Mix", "## Highest Risk Scholars", "## Recent Signal Notes",
      "## Weekly Signal Trend">>

NoDataLines ==
    <<"No signals recorded for this window.", "No scholars with signals in this window.",
      "No signals recorded for this window.", "No weekly trend data available for this window.">>

\* Lines of the report that are the k-th section header.
HeaderAt(k) == {i \in DOMAIN output : output[i][1] = SectionHeaders[k]}

\* Lines of the report inside the k-th section: after its header, before the
\* next header (or the end).
SectionOf(k) ==
    LET first == CHOOSE i \in HeaderAt(k) : TRUE
        last == IF k < 4 THEN (CHOOSE i \in HeaderAt(k + 1) : TRUE) - 1 ELSE Len(output)
    IN (first + 1)..last

\* Number of entries the k-th section has to list.
EntriesOf(k) ==
    IF k = 1 THEN Cardinality(TypesGiven)
    ELSE IF k = 2 THEN Cardinality(Counted)
    ELSE IF k = 3 THEN Len(signals)
    ELSE Len(trends)

\* C9: a report holds each of the four section headers exactly once, in the
\* order Signal Mix, Highest Risk Scholars, Recent Signal Notes, Weekly
\* Signal Trend; a section holds its no-data line exactly when it has nothing
\* to list; and with no signals and one trend row the first three sections
\* show their no-data line and the trend section the row's "Week of" line.
C9_ReportSections ==
    (pc = "done" /\ command = "report") =>
        /\ \A k \in 1..4 : Cardinality(HeaderAt(k)) = 1
        /\ \A k \in 1..3 : \A i \in HeaderAt(k) : \A j \in HeaderAt(k + 1) : i < j
        /\ \A k \in 1..4 :
              LET nodata == {i \in SectionOf(k) : output[i][1] = NoDataLines[k]}
              IN /\ EntriesOf(k) = 0 <=> nodata # {}
                 /\ Cardinality(nodata) <= 1
        /\ (signals = <<>> /\ Len(trends) = 1) =>
              /\ \A k \in 1..3 : \E i \in SectionOf(k) : output[i][1] = NoDataLines[k]
              /\ \E i \in SectionOf(4) :
                    /\ output[i][1] = "- Week of {}: {} signals across {} scholars (avg severity {:.2})"
                    /\ output[i][2] = trends[1].week_start

\* The scenario of the claim: a report on no signals and one trend row.
C9_Witness ==
    /\ pc = "done"
    /\ command = "report"
    /\ signals = <<>>
    /\ Len(trends) = 1
    /\ Len(output) = 14

\* C10 as claimed: the Report command run twice on the same signals, trends,
\* scope label and current date returns the same text both times, and
\* score_signals the same scores and counts.
C10_SameOutputTwice ==
    (pc = "done" /\ command = "report" /\ prev # <<>>) =>
        /\ output = prev[1].output
        /\ Range(values) = Range(prev[1].values)

\* What the claims call score(signals, since_days, today): the entries that
\* scoring with the one date `today` gives, as a set.
ScoreFor(today) ==
    LET kept == OnOrAfter(today - Window)
        mine(id) == {i \in kept : signals[i].scholar_id = id}
    IN {[scholar_email |-> scholar_emails[id],
         score |-> SumOver(mine(id), [i \in mine(id) |->
                      signals[i].severity * recency_weight(today - signals[i].occurred_at)]),
         signal_count |-> Cardinality(mine(id))] :
           id \in {signals[i].scholar_id : i \in kept}}

\* C11 as claimed: one run uses one value of today.  Every date the run
\* reads from the clock is the date main read for the cutoff it fetched with
\* and printed, so that cutoff is the cutoff of score_signals; every counted
\* signal has days_ago <= max(since_days, 1); and the result is
\* score(signals, since_days, today) for that one today.
C11_SingleToday ==
    /\ \A k \in DOMAIN reads : reads[k] = reads[1]
    /\ Len(reads) >= 2 => since_date = cutoff
    /\ \A k \in DOMAIN weighed : weighed[k].days_ago <= Window
    /\ Scored => Range(values) = ScoreFor(reads[1])

\* The line of the report that is the k-th section header.
HeaderLine(k) == CHOOSE i \in HeaderAt(k) : TRUE

\* Lines of the k-th section that are list entries of the given format.
EntryLines(k, format) == {i \in SectionOf(k) : output[i][1] = format}

\* The Recent Signal Notes line of a signal.
NoteOf(s) == <<"- {} ({}) on {}: {}", s.scholar_email, s.signal_type, s.occurred_at, s.note>>

\* C12: in a finished report, Highest Risk Scholars lists exactly the first
\* min(10, n) entries of score_signals' ordering of the n scored scholars, in
\* that order; Recent Signal Notes lists exactly min(5, m) of the m supplied
\* signals, each listed line being a signal of its own, in non-increasing
\* date order, and every signal dated strictly later than the last listed
\* line is itself listed.
C12_Truncations ==
    (pc = "done" /\ command = "report") =>
        LET n == Len(values)
            m == Len(signals)
            top == IF n < 10 THEN n ELSE 10
            recent == IF m < 5 THEN m ELSE 5
            risk == EntryLines(2, "- {} ({}, {}) score {:.2} across {} signals")
            notes == EntryLines(3, "- {} ({}) on {}: {}")
            h2 == HeaderLine(2)
            h3 == HeaderLine(3)
        IN /\ risk = (h2 + 1)..(h2 + top)
           /\ \A j \in 1..top :
                 output[h2 + j] = <<"- {} ({}, {}) score {:.2} across {} signals",
                                    values[j].scholar_email, 10 * values[j].score,
                                    values[j].signal_count>>
           /\ notes = (h3 + 1)..(h3 + recent)
           /\ \A j \in 1..(recent - 1) : output[h3 + j][4] >= output[h3 + j + 1][4]
           /\ \A i \in notes :
                 Cardinality({j \in notes : output[j] = output[i]})
                    <= Cardinality({j \in DOMAIN signals : NoteOf(signals[j]) = output[i]})
           /\ recent > 0 =>
                 LET last == output[h3 + recent][4]
                 IN Cardinality({j \in DOMAIN signals : signals[j].occurred_at > last})
                       = Cardinality({i \in notes : output[i][4] > last})

\* A finished report on more than ten scored scholars and more than five
\* signals, whose two lists are cut to ten and to five lines, the most at-risk
\* scholar not being the first in the input.
C12_Witness ==
    /\ pc = "done"
    /\ command = "report"
    /\ Len(values) > 10
    /\ Len(signals) > 5
    /\ values[1].scholar_email # signals[1].scholar_email
    /\ Cardinality(EntryLines(2, "- {} ({}, {}) score {:.2} across {} signals")) = 10
    /\ Cardinality(EntryLines(3, "- {} ({}) on {}: {}")) = 5

====
